---- MODULE Spec2Model ----
(***************************************************************************)
(* Model of check_gp_agendas_2026.py: a watcher that fetches the document  *)
(* list of one folder, diffs it against the IDs kept in state.json and     *)
(* posts to a Discord webhook.  One process invocation is one "run"; the  *)
(* state file is the only thing that survives from one run to the next.    *)
(***************************************************************************)
EXTENDS Integers, Sequences, FiniteSets, TLC

(* ------------------------------ bounds --------------------------------- *)
\* document IDs the upstream folder may hold are 1..MaxId
MaxId == 2
\* the Documents array of a payload has at most MaxDocs entries
MaxDocs == 2

(* ------------------------- program constants --------------------------- *)
\* range(1, 6): the first and the last attempt of http_post_json
FirstAttempt == 1
LastAttempt == 5
\* dt_local.hour == 19
DailyHour == 19
\* CST = UTC-6, CDT = UTC-5
CdtOffset == -5
CstOffset == -6
\* d.get("ID") of a record without an ID: Python's None
None == -1
\* exit_status while the process is still running
Running == -1

IDs == 1..MaxId

(* ------------------------- calendar arithmetic ------------------------- *)
\* datetime(y, m, d).toordinal() relative to 1970-01-01 (proleptic Gregorian)
DaysFromCivil(y, m, d) ==
    LET yy  == IF m <= 2 THEN y - 1 ELSE y
        era == yy \div 400
        yoe == yy - era * 400
        mp  == (m + 9) % 12
        doy == (153 * mp + 2) \div 5 + d - 1
        doe == yoe * 365 + yoe \div 4 - yoe \div 100 + doy
    IN  era * 146097 + doe - 719468

\* the inverse: the civil date of a day number
CivilFromDays(z) ==
    LET zz  == z + 719468
        era == zz \div 146097
        doe == zz - era * 146097
        yoe == (doe - doe \div 1460 + doe \div 36524 - doe \div 146096) \div 365
        doy == doe - (365 * yoe + yoe \div 4 - yoe \div 100)
        mp  == (5 * doy + 2) \div 153
        d   == doy - (153 * mp + 2) \div 5 + 1
        m   == IF mp < 10 THEN mp + 3 ELSE mp - 9
        y   == yoe + era * 400 + (IF m <= 2 THEN 1 ELSE 0)
    IN  [year |-> y, month |-> m, day |-> d]

\* datetime.weekday(): Mon = 0 ... Sun = 6 (1970-01-01 was a Thursday)
Weekday(y, m, d) == (DaysFromCivil(y, m, d) + 3) % 7

\* a datetime, to the minute
DateTime(y, mo, d, h, mi) == [year |-> y, month |-> mo, day |-> d, hour |-> h, minute |-> mi]

\* minutes since 1970-01-01T00:00
ToMinutes(dt) == (DaysFromCivil(dt.year, dt.month, dt.day) * 24 + dt.hour) * 60 + dt.minute

\* dt + timedelta(hours = h)
AddHours(dt, h) ==
    LET t    == ToMinutes(dt) + h * 60
        days == t \div 1440
        rest == t % 1440
        c    == CivilFromDays(days)
    IN  DateTime(c.year, c.month, c.day, rest \div 60, rest % 60)

\* a <= b on datetimes
DtLeq(a, b) == ToMinutes(a) <= ToMinutes(b)

\* mutant: the `+ 7` is lost, DST starts on the first Sunday of March
is_us_dst_chicago_first_sunday(dt_utc_) ==
    LET year == dt_utc_.year
        second_sunday == 1 + ((6 - Weekday(year, 3, 1)) % 7)
        dst_start_utc == DateTime(year, 3, second_sunday, 8, 0)
        first_sunday == 1 + ((6 - Weekday(year, 11, 1)) % 7)
        dst_end_utc == DateTime(year, 11, first_sunday, 7, 0)
    IN  DtLeq(dst_start_utc, dt_utc_) /\ ~DtLeq(dst_end_utc, dt_utc_)

is_us_dst_chicago(dt_utc_) ==
    LET year == dt_utc_.year
        first_sunday_offset_mar == (6 - Weekday(year, 3, 1)) % 7
        second_sunday == 1 + first_sunday_offset_mar + 7
        dst_start_utc == DateTime(year, 3, second_sunday, 8, 0)
        first_sunday_offset_nov == (6 - Weekday(year, 11, 1)) % 7
        first_sunday == 1 + first_sunday_offset_nov
        dst_end_utc == DateTime(year, 11, first_sunday, 7, 0)
    IN  DtLeq(dst_start_utc, dt_utc_) /\ ~DtLeq(dst_end_utc, dt_utc_)

chicago_now_from_utc(dt_utc_) ==
    LET offset_hours == IF is_us_dst_chicago(dt_utc_) THEN CdtOffset ELSE CstOffset
    IN  AddHours(dt_utc_, offset_hours)

\* the instants datetime.now(timezone.utc) returns in the runs explored
Instants ==
    { DateTime(2025, 7, 2, 0, 30),    \* 19:30 CDT the day before
      DateTime(2025, 1, 2, 0, 30) }   \* 18:30 CST the day before

\* the instants the clock arithmetic is explored on: around both DST switches
\* of three years, at the turn of a day, a month, a leap February and a year
TimeInputs ==
    { DateTime(y, md[1], md[2], h, mi) :
        y \in {2024, 2025, 2026},
        md \in { <<1, 1>>, <<3, 1>>, <<3, 8>>, <<3, 9>>, <<3, 10>>, <<7, 1>>,
                 <<11, 1>>, <<11, 2>>, <<11, 3>>, <<12, 31>> },
        h \in {0, 4, 5, 6, 7, 8, 19, 23},
        mi \in {0, 59} }

(* ------------------------------ payloads ------------------------------- *)
\* the fields extract_docs reads from one upstream item, apart from its ID; a
\* missing or null string field is written "" (both are falsy in `a or b`)
ItemShapes ==
    { [DisplayName |-> "Agenda", Name |-> "",        FileUrl |-> "/f.pdf", Url |-> ""],
      [DisplayName |-> "",       Name |-> "Minutes", FileUrl |-> "",       Url |-> ""] }

\* an item without ID, with a name and a URL of its own
NoIdItem == [ID |-> None, DisplayName |-> "Draft", Name |-> "", FileUrl |-> "/draft.pdf", Url |-> ""]

RawItems ==
    { [ID |-> i, DisplayName |-> f.DisplayName, Name |-> f.Name,
       FileUrl |-> f.FileUrl, Url |-> f.Url] : i \in IDs, f \in ItemShapes }
    \cup {NoIdItem}

SeqsUpTo(S, n) == UNION { [1..k -> S] : k \in 0..n }

\* the JSON object the endpoint answers with (http_post_json returns a dict):
\* without "Documents", with "Documents": null, or with a "Documents" array
NoPayload == [shape |-> "none", Documents |-> <<>>]
Payloads ==
    { [shape |-> sh, Documents |-> <<>>] : sh \in {"nokey", "null"} }
    \cup { [shape |-> "list", Documents |-> s] : s \in SeqsUpTo(RawItems, MaxDocs) }

(* ------------------------------ extract_docs --------------------------- *)
\* Python's order on the names that occur: "(" < "A" < "D" < "M"
NameOrder == <<"(unnamed)", "Agenda", "Draft", "Minutes">>
NameRank(n) == CHOOSE i \in DOMAIN NameOrder : NameOrder[i] = n

\* a or b on strings
StrOr(a, b) == IF a # "" THEN a ELSE b

\* key = (id if id is not None else 0, name), compared as Python compares tuples
SortKeyLeq(a, b) ==
    LET ka == IF a.id # None THEN a.id ELSE 0
        kb == IF b.id # None THEN b.id ELSE 0
    IN  \/ ka < kb
        \/ ka = kb /\ NameRank(a.name) <= NameRank(b.name)

\* list.sort is stable: x goes after every element whose key is <= its key
InsertSorted(s, x) ==
    LET n == Cardinality({ i \in DOMAIN s : SortKeyLeq(s[i], x) })
    IN  SubSeq(s, 1, n) \o <<x>> \o SubSeq(s, n + 1, Len(s))

RECURSIVE SortDocs(_)
SortDocs(s) ==
    IF s = <<>> THEN <<>>
    ELSE InsertSorted(SortDocs(SubSeq(s, 1, Len(s) - 1)), s[Len(s)])

ExtractOne(d) ==
    [id   |-> d.ID,
     name |-> StrOr(d.DisplayName, StrOr(d.Name, "(unnamed)")),
     url  |-> StrOr(d.FileUrl, d.Url)]

\* payload.get("Documents", []) or []
DocumentsOf(p) == IF p.shape = "list" THEN p.Documents ELSE <<>>

extract_docs(p) ==
    LET ds == DocumentsOf(p)
    IN  SortDocs([i \in DOMAIN ds |-> ExtractOne(ds[i])])

(* ------------------------------ small helpers -------------------------- *)
\* set(list)
SetOf(s) == { s[i] : i \in DOMAIN s }

\* [d for d in ds if d["id"] in S]
RECURSIVE DocsWithIdIn(_, _)
DocsWithIdIn(ds, S) ==
    IF ds = <<>> THEN <<>>
    ELSE LET rest == DocsWithIdIn(Tail(ds), S)
         IN  IF Head(ds).id \in S THEN <<Head(ds)>> \o rest ELSE rest

\* mutant: the `is not None` filter is lost
IdsOfDocs_all(ds) == [i \in DOMAIN ds |-> ds[i].id]

\* [d["id"] for d in ds if d["id"] is not None]
RECURSIVE IdsOfDocs(_)
IdsOfDocs(ds) ==
    IF ds = <<>> THEN <<>>
    ELSE IF Head(ds).id # None THEN <<Head(ds).id>> \o IdsOfDocs(Tail(ds))
         ELSE IdsOfDocs(Tail(ds))

\* sorted(list(S)) for a set of integers
RECURSIVE SortedList(_)
SortedList(S) ==
    IF S = {} THEN <<>>
    ELSE LET m == CHOOSE x \in S : \A y \in S : x <= y
         IN  <<m>> \o SortedList(S \ {m})

RECURSIVE Pow2(_)
Pow2(n) == IF n = 0 THEN 1 ELSE 2 * Pow2(n - 1)

(* ------------------------------- state --------------------------------- *)
VARIABLES
    state_file,           \* state.json on disk
    file_at_start,        \* state.json as it was when this run started
    DISCORD_WEBHOOK_URL,  \* TRUE iff the environment sets a non-empty webhook URL
    FORCE_NOTIFY,         \* the FORCE_NOTIFY flag of this run
    DAILY_CHECK,          \* the DAILY_CHECK flag of this run
    pc,                   \* where the process is
    dt_utc,               \* main: datetime.now(timezone.utc)
    attempt,              \* http_post_json: the loop variable
    last_err,             \* http_post_json: last_err
    sleeps,               \* http_post_json: the time.sleep calls so far, in order
    payload,              \* main: payload
    docs,                 \* main: docs
    state,                \* main: state
    seen,                 \* main: seen
    msg,                  \* main: msg
    posts,                \* the webhook POSTs issued in this run, in order
    exc,                  \* the exception that escaped main()
    exit_status,          \* the exit status of the process
    outcome,              \* the branch of main() this run took
    prev                  \* the previous run: its status and, if it completed, the IDs
                          \* it fetched and whether it had loaded a non-empty seen set

vars == <<state_file, file_at_start, DISCORD_WEBHOOK_URL, FORCE_NOTIFY, DAILY_CHECK, pc, dt_utc,
          attempt, last_err, sleeps, payload, docs, state, seen, msg, posts, exc,
          exit_status, outcome, prev>>

env == <<file_at_start, DISCORD_WEBHOOK_URL, FORCE_NOTIFY, DAILY_CHECK, dt_utc>>

NoErr == [type |-> "none", attempt |-> 0]
NoMsg == [kind |-> "none", total |-> 0, lines |-> <<>>, err |-> NoErr]
NoState == [has_seen_ids |-> FALSE, seen_ids |-> <<>>]
NoInstant == DateTime(1970, 1, 1, 0, 0)
\* prev when there was no previous run, and when the previous run failed
NoPrev == [exit_status |-> Running, current_set |-> {}, seen_nonempty |-> FALSE,
           new_ids |-> {}]
FailedPrev == [exit_status |-> 1, current_set |-> {}, seen_nonempty |-> FALSE, new_ids |-> {}]

\* the errors one fetch attempt can end in (urlopen fails, json.loads fails)
FetchErrors == {"URLError", "JSONDecodeError"}

\* state.json: absent, unreadable as a JSON object, or a JSON object
AbsentFile == [kind |-> "absent", has_seen_ids |-> FALSE, seen_ids |-> <<>>]
CorruptFile == [kind |-> "corrupt", has_seen_ids |-> FALSE, seen_ids |-> <<>>]
ObjectFile(st) == [kind |-> "object", has_seen_ids |-> st.has_seen_ids, seen_ids |-> st.seen_ids]

InitialFiles ==
    { AbsentFile, CorruptFile, ObjectFile(NoState) }
    \cup { ObjectFile([has_seen_ids |-> TRUE, seen_ids |-> SortedList(S)]) : S \in SUBSET IDs }

\* mutant: the difference is taken the wrong way round
new_ids_of_reversed(current_set_, seen_) == seen_ \ current_set_

\* `new_ids = current_set - seen`
new_ids_of(current_set_, seen_) == current_set_ \ seen_

\* main: current_ids, current_set, new_ids, dt_local
current_ids == IdsOfDocs(docs)
current_set == SetOf(current_ids)
new_ids == new_ids_of(current_set, seen)
dt_local == chicago_now_from_utc(dt_utc)

Init ==
    /\ state_file \in InitialFiles
    /\ file_at_start = state_file
    /\ DISCORD_WEBHOOK_URL = FALSE
    /\ FORCE_NOTIFY = FALSE
    /\ DAILY_CHECK = FALSE
    /\ pc = "idle"
    /\ dt_utc = NoInstant
    /\ attempt = 0
    /\ last_err = NoErr
    /\ sleeps = <<>>
    /\ payload = NoPayload
    /\ docs = <<>>
    /\ state = NoState
    /\ seen = {}
    /\ msg = NoMsg
    /\ posts = <<>>
    /\ exc = NoErr
    /\ exit_status = Running
    /\ outcome = "none"
    /\ prev = NoPrev

(* --------------------------- decisions of main ------------------------- *)
\* mutant: the first-run branch is never taken
first_run_never(seen_) == FALSE

\* `if not seen:`
first_run(seen_) == seen_ = {}

\* mutant: the filter on new_ids is lost, every fetched document is reported
new_docs_of_all(docs_, new_ids_) == docs_

\* `new_docs = [d for d in docs if d["id"] in new_ids]`
new_docs_of(docs_, new_ids_) == DocsWithIdIn(docs_, new_ids_)

\* mutant: the seen IDs accumulate instead of being replaced
seen_ids_to_persist_union(current_set_) == SortedList(current_set_ \cup seen)

\* mutant: the loaded seen IDs are written back instead of the current ones
seen_ids_to_persist_stale(current_set_) == SortedList(seen)

\* `state["seen_ids"] = sorted(list(current_set))`
seen_ids_to_persist(current_set_) == SortedList(current_set_)

\* mutant: linear instead of exponential backoff
backoff_seconds_linear(attempt_) == attempt_

\* `time.sleep(2 ** (attempt - 1))`
backoff_seconds(attempt_) == Pow2(attempt_ - 1)

\* mutant: the hour test is lost
daily_due_any_hour(daily_check_, dt_local_) == daily_check_

\* `if DAILY_CHECK and dt_local.hour == 19:`
daily_due(daily_check_, dt_local_) == daily_check_ /\ dt_local_.hour = DailyHour

\* mutant: the bullet always shows the ID
Line_id_only(doc) == [name |-> doc.name, shows |-> "id", url |-> "", id |-> doc.id]

\* one bullet of the new-document message: the URL if there is one, else the ID
Line(doc) ==
    IF doc.url # ""
    THEN [name |-> doc.name, shows |-> "url", url |-> doc.url, id |-> None]
    ELSE [name |-> doc.name, shows |-> "id", url |-> "", id |-> doc.id]

InitMsg(total) == [kind |-> "init", total |-> total, lines |-> <<>>, err |-> NoErr]
NewDocsMsg(new_docs) ==
    [kind |-> "new", total |-> 0, lines |-> [i \in DOMAIN new_docs |-> Line(new_docs[i])],
     err |-> NoErr]
HeartbeatMsg(total) == [kind |-> "heartbeat", total |-> total, lines |-> <<>>, err |-> NoErr]
DailyMsg(total) == [kind |-> "daily", total |-> total, lines |-> <<>>, err |-> NoErr]
ErrorMsg(e) == [kind |-> "error", total |-> 0, lines |-> <<>>, err |-> e]

\* mutant: without a webhook URL the call raises instead of returning
discord_post_strict(text, ok) ==
    IF ~DISCORD_WEBHOOK_URL
    THEN [posts |-> posts, raised |-> TRUE]
    ELSE [posts |-> Append(posts, [text |-> text, ok |-> ok]), raised |-> ~ok]

\* discord_post(text), the POST succeeding iff ok: the POSTs issued so far and
\* whether the call raised
discord_post(text, ok) ==
    IF ~DISCORD_WEBHOOK_URL
    THEN [posts |-> posts, raised |-> FALSE]
    ELSE [posts |-> Append(posts, [text |-> text, ok |-> ok]), raised |-> ~ok]

WebhookError == [type |-> "WebhookError", attempt |-> 0]

\* main() returned: the process ends with status 0
Returns == pc' = "exited" /\ exit_status' = 0 /\ exc' = exc

\* e escapes main(): the handler of __main__ runs next
Raises(e) == pc' = "handler" /\ exc' = e /\ exit_status' = exit_status

\* save_state(st): the file is rewritten; open() may fail (file untouched) and
\* the write may fail after the file was truncated
save_state(st, result) ==
    CASE result = "ok"          -> state_file' = ObjectFile(st)
      [] result = "open_failed" -> state_file' = state_file
      [] result = "write_failed" -> state_file' = CorruptFile

SaveResults == {"ok", "open_failed", "write_failed"}
SaveError == [type |-> "OSError", attempt |-> 0]

(* ------------------------------- actions ------------------------------- *)
\* the scheduler starts the process: the module-level code reads the
\* environment (lines 27-33), main() takes the time (line 137) and calls
\* http_post_json, whose loop starts at attempt 1
StartAt(instants) ==
    /\ pc = "idle"
    /\ DISCORD_WEBHOOK_URL' \in BOOLEAN
    /\ FORCE_NOTIFY' \in BOOLEAN
    /\ DAILY_CHECK' \in BOOLEAN
    /\ dt_utc' \in instants
    /\ pc' = "attempt"
    /\ attempt' = FirstAttempt
    /\ UNCHANGED <<state_file, file_at_start, last_err, sleeps, payload, docs, state,
                   seen, msg, posts, exc, exit_status, outcome, prev>>

Start == StartAt(Instants)

\* the same start, at any of the instants of TimeInputs
StartAnyTime == StartAt(TimeInputs)

\* the process is gone: of all it held only state.json is left for the next
\* invocation (prev keeps what the claims about consecutive runs refer to)
ProcessGoneWith(p) ==
    /\ pc = "exited"
    /\ pc' = "idle"
    /\ file_at_start' = state_file
    /\ DISCORD_WEBHOOK_URL' = FALSE
    /\ FORCE_NOTIFY' = FALSE
    /\ DAILY_CHECK' = FALSE
    /\ dt_utc' = NoInstant
    /\ attempt' = 0
    /\ last_err' = NoErr
    /\ sleeps' = <<>>
    /\ payload' = NoPayload
    /\ docs' = <<>>
    /\ state' = NoState
    /\ seen' = {}
    /\ msg' = NoMsg
    /\ posts' = <<>>
    /\ exc' = NoErr
    /\ exit_status' = Running
    /\ outcome' = "none"
    /\ prev' = p
    /\ UNCHANGED state_file

\* prev keeps the fetched IDs of a run that completed
ProcessGone ==
    ProcessGoneWith(IF exit_status # 0 THEN FailedPrev
                    ELSE [exit_status |-> 0, current_set |-> current_set,
                          seen_nonempty |-> seen # {}, new_ids |-> {}])

\* this run failed in discord_post(msg) of the new-document branch (line 182)
NewPostFailed == outcome = "NEW_DOCS" /\ exc = WebhookError

\* prev keeps the fetched IDs and the new IDs of a run whose new-document POST
\* failed, and of any other run its status only
ProcessGoneRetry ==
    ProcessGoneWith(IF NewPostFailed
                    THEN [exit_status |-> exit_status, current_set |-> current_set,
                          seen_nonempty |-> TRUE, new_ids |-> new_ids]
                    ELSE [exit_status |-> exit_status, current_set |-> {},
                          seen_nonempty |-> FALSE, new_ids |-> {}])

\* http_post_json, one pass of the try block that succeeds: return json.loads(raw)
\* (the call is over and its locals are gone)
AttemptOk ==
    /\ pc = "attempt"
    /\ payload' \in Payloads
    /\ pc' = "extract"
    /\ attempt' = 0
    /\ last_err' = NoErr
    /\ sleeps' = <<>>
    /\ UNCHANGED <<state_file, env, docs, state, seen, msg,
                   posts, exc, exit_status, outcome, prev>>

\* http_post_json, one pass of the try block that raises: last_err = e
AttemptFails ==
    /\ pc = "attempt"
    /\ \E e \in FetchErrors : last_err' = [type |-> e, attempt |-> attempt]
    /\ pc' = "sleep"
    /\ UNCHANGED <<state_file, env, attempt, sleeps, payload, docs, state, seen, msg,
                   posts, exc, exit_status, outcome, prev>>

\* http_post_json, the rest of the except block and the loop header: sleep,
\* then the next attempt, or `raise last_err` when the range is exhausted
Sleep ==
    /\ pc = "sleep"
    /\ sleeps' = Append(sleeps, backoff_seconds(attempt))
    /\ IF attempt < LastAttempt
       THEN /\ attempt' = attempt + 1
            /\ pc' = "attempt"
            /\ UNCHANGED <<exc, exit_status>>
       ELSE /\ attempt' = attempt
            /\ Raises(last_err)
    /\ UNCHANGED <<state_file, env, last_err, payload, docs, state, seen, msg, posts,
                   outcome, prev>>

\* mutant: payload["Documents"] is subscripted and iterated as it is, which
\* raises without the key and on null
Extract_strict ==
    /\ pc = "extract"
    /\ IF payload.shape = "list"
       THEN docs' = extract_docs(payload) /\ pc' = "load" /\ UNCHANGED <<exc, exit_status>>
       ELSE docs' = docs /\ Raises([type |-> "KeyError", attempt |-> 0])
    /\ UNCHANGED <<state_file, env, attempt, last_err, sleeps, payload, state, seen, msg,
                   posts, outcome, prev>>

\* docs = extract_docs(payload)
Extract ==
    /\ pc = "extract"
    /\ docs' = extract_docs(payload)
    /\ pc' = "load"
    /\ UNCHANGED <<state_file, env, attempt, last_err, sleeps, payload, state, seen, msg,
                   posts, exc, exit_status, outcome, prev>>

\* state = load_state(); seen = set(state.get("seen_ids", [])); then the branch
LoadState ==
    /\ pc = "load"
    /\ IF state_file.kind = "corrupt"
       THEN /\ Raises([type |-> "StateFileError", attempt |-> 0])
            /\ UNCHANGED <<state, seen, outcome, msg>>
       ELSE LET st == IF state_file.kind = "absent"
                      THEN [has_seen_ids |-> TRUE, seen_ids |-> <<>>]
                      ELSE [has_seen_ids |-> state_file.has_seen_ids,
                            seen_ids |-> state_file.seen_ids]
                sn == IF st.has_seen_ids THEN SetOf(st.seen_ids) ELSE {}
            IN  /\ state' = st
                /\ seen' = sn
                /\ IF first_run(sn)
                   THEN pc' = "init_save" /\ outcome' = "INITIALIZE" /\ msg' = msg
                   ELSE IF new_ids_of(current_set, sn) # {}
                   THEN /\ pc' = "new_post"
                        /\ outcome' = "NEW_DOCS"
                        /\ msg' = NewDocsMsg(new_docs_of(docs, new_ids_of(current_set, sn)))
                   ELSE pc' = "heartbeat" /\ outcome' = "NO_CHANGE" /\ msg' = msg
                /\ UNCHANGED <<exc, exit_status>>
    /\ UNCHANGED <<state_file, env, attempt, last_err, sleeps, payload, docs, posts, prev>>

\* first run: state["seen_ids"] = sorted(list(current_set)); save_state(state);
\* msg = ...; without FORCE_NOTIFY main returns here
InitSave ==
    /\ pc = "init_save"
    /\ state' = [has_seen_ids |-> TRUE, seen_ids |-> seen_ids_to_persist(current_set)]
    /\ \E r \in SaveResults :
          /\ save_state(state', r)
          /\ IF r # "ok"
             THEN Raises(SaveError) /\ msg' = msg
             ELSE /\ msg' = InitMsg(Cardinality(current_set))
                  /\ IF FORCE_NOTIFY
                     THEN pc' = "init_post" /\ UNCHANGED <<exc, exit_status>>
                     ELSE Returns
    /\ UNCHANGED <<env, attempt, last_err, sleeps, payload, docs, seen, posts, outcome, prev>>

\* first run with FORCE_NOTIFY: discord_post(msg); return
InitPost ==
    /\ pc = "init_post"
    /\ \E ok \in BOOLEAN :
          LET r == discord_post(msg, ok)
          IN  /\ posts' = r.posts
              /\ IF r.raised THEN Raises(WebhookError) ELSE Returns
    /\ UNCHANGED <<state_file, env, attempt, last_err, sleeps, payload, docs, state, seen,
                   msg, outcome, prev>>

\* mutant: a failure of the POST is swallowed and the state is saved all the same
NewPost_swallow ==
    /\ pc = "new_post"
    /\ \E ok \in BOOLEAN : posts' = discord_post(msg, ok).posts
    /\ pc' = "new_save"
    /\ UNCHANGED <<state_file, env, attempt, last_err, sleeps, payload, docs, state, seen,
                   msg, exc, exit_status, outcome, prev>>

\* new documents: discord_post(msg)
NewPost ==
    /\ pc = "new_post"
    /\ \E ok \in BOOLEAN :
          LET r == discord_post(msg, ok)
          IN  /\ posts' = r.posts
              /\ IF r.raised
                 THEN Raises(WebhookError)
                 ELSE pc' = "new_save" /\ UNCHANGED <<exc, exit_status>>
    /\ UNCHANGED <<state_file, env, attempt, last_err, sleeps, payload, docs, state, seen,
                   msg, outcome, prev>>

\* new documents: state["seen_ids"] = sorted(list(current_set)); save_state(state); return
NewSave ==
    /\ pc = "new_save"
    /\ state' = [has_seen_ids |-> TRUE, seen_ids |-> seen_ids_to_persist(current_set)]
    /\ \E r \in SaveResults :
          /\ save_state(state', r)
          /\ IF r # "ok" THEN Raises(SaveError) ELSE Returns
    /\ UNCHANGED <<env, attempt, last_err, sleeps, payload, docs, seen, msg, posts,
                   outcome, prev>>

\* no new documents: `if FORCE_NOTIFY: discord_post(...)`
Heartbeat ==
    /\ pc = "heartbeat"
    /\ IF FORCE_NOTIFY
       THEN \E ok \in BOOLEAN :
               LET r == discord_post(HeartbeatMsg(Cardinality(current_set)), ok)
               IN  /\ posts' = r.posts
                   /\ IF r.raised
                      THEN Raises(WebhookError)
                      ELSE pc' = "daily" /\ UNCHANGED <<exc, exit_status>>
       ELSE pc' = "daily" /\ UNCHANGED <<posts, exc, exit_status>>
    /\ UNCHANGED <<state_file, env, attempt, last_err, sleeps, payload, docs, state, seen,
                   msg, outcome, prev>>

\* no new documents: `if DAILY_CHECK and dt_local.hour == 19: discord_post(...)`
Daily ==
    /\ pc = "daily"
    /\ IF daily_due(DAILY_CHECK, dt_local)
       THEN \E ok \in BOOLEAN :
               LET r == discord_post(DailyMsg(Cardinality(current_set)), ok)
               IN  /\ posts' = r.posts
                   /\ IF r.raised
                      THEN Raises(WebhookError)
                      ELSE pc' = "nochange_save" /\ UNCHANGED <<exc, exit_status>>
       ELSE pc' = "nochange_save" /\ UNCHANGED <<posts, exc, exit_status>>
    /\ UNCHANGED <<state_file, env, attempt, last_err, sleeps, payload, docs, state, seen,
                   msg, outcome, prev>>

\* mutant: a run without change returns without rewriting state.json
NoChangeSave_skip ==
    /\ pc = "nochange_save"
    /\ state' = state
    /\ state_file' = state_file
    /\ Returns
    /\ UNCHANGED <<env, attempt, last_err, sleeps, payload, docs, seen, msg, posts,
                   outcome, prev>>

\* no new documents: state["seen_ids"] = sorted(list(current_set)); save_state(state)
NoChangeSave ==
    /\ pc = "nochange_save"
    /\ state' = [has_seen_ids |-> TRUE, seen_ids |-> seen_ids_to_persist(current_set)]
    /\ \E r \in SaveResults :
          /\ save_state(state', r)
          /\ IF r # "ok" THEN Raises(SaveError) ELSE Returns
    /\ UNCHANGED <<env, attempt, last_err, sleeps, payload, docs, seen, msg, posts,
                   outcome, prev>>

\* mutant: the handler reports the error but forgets sys.exit(1)
Handler_exit0 ==
    /\ pc = "handler"
    /\ IF DISCORD_WEBHOOK_URL
       THEN \E ok \in BOOLEAN : posts' = discord_post(ErrorMsg(exc), ok).posts
       ELSE posts' = posts
    /\ pc' = "exited"
    /\ exit_status' = 0
    /\ UNCHANGED <<state_file, env, attempt, last_err, sleeps, payload, docs, state, seen,
                   msg, exc, outcome, prev>>

\* `except Exception as e:` of __main__: report the error if a webhook is set,
\* swallowing a failure of that POST, then sys.exit(1)
Handler ==
    /\ pc = "handler"
    /\ IF DISCORD_WEBHOOK_URL
       THEN \E ok \in BOOLEAN : posts' = discord_post(ErrorMsg(exc), ok).posts
       ELSE posts' = posts
    /\ pc' = "exited"
    /\ exit_status' = 1
    /\ UNCHANGED <<state_file, env, attempt, last_err, sleeps, payload, docs, state, seen,
                   msg, exc, outcome, prev>>

Next ==
    \/ Start
    \/ ProcessGone
    \/ AttemptOk
    \/ AttemptFails
    \/ Sleep
    \/ Extract
    \/ LoadState
    \/ InitSave
    \/ InitPost
    \/ NewPost
    \/ NewSave
    \/ Heartbeat
    \/ Daily
    \/ NoChangeSave
    \/ Handler

Spec == Init /\ [][Next]_vars

\* the start of main() alone (lines 137-138), over the instants of TimeInputs
NextTime == StartAnyTime

SpecTime == Init /\ [][NextTime]_vars

\* the program with the record of consecutive runs that ProcessGoneRetry keeps
NextRetry ==
    \/ Start
    \/ ProcessGoneRetry
    \/ AttemptOk
    \/ AttemptFails
    \/ Sleep
    \/ Extract
    \/ LoadState
    \/ InitSave
    \/ InitPost
    \/ NewPost
    \/ NewSave
    \/ Heartbeat
    \/ Daily
    \/ NoChangeSave
    \/ Handler

SpecRetry == Init /\ [][NextRetry]_vars

(* ------------------------- vocabulary of the claims -------------------- *)
\* the non-null document IDs of the payload this run fetched
FetchedIds == { payload.Documents[i].ID : i \in DOMAIN payload.Documents } \ {None}

\* the IDs state.json holds
PersistedIds == SetOf(state_file.seen_ids)

\* state.json holds exactly the IDs S
Persisted(S) ==
    /\ state_file.kind = "object"
    /\ state_file.has_seen_ids
    /\ PersistedIds = S

\* the kinds of the messages POSTed to the webhook in this run
PostedKinds == { posts[i].text.kind : i \in DOMAIN posts }

\* main() has returned and the process has ended with status 0
Completed == pc = "exited" /\ exit_status = 0

\* state_file was loaded and main() has taken one of its three branches
Branched == outcome # "none"

\* the outcome the loaded seen set and the fetched IDs call for
OutcomeFor(seen_, ids) ==
    IF seen_ = {} THEN "INITIALIZE"
    ELSE IF ids \ seen_ # {} THEN "NEW_DOCS"
    ELSE "NO_CHANGE"

\* this run started with no state file or with no seen IDs in it
FirstRunStart ==
    /\ pc \notin {"idle"}
    /\ \/ file_at_start.kind = "absent"
       \/ file_at_start.kind = "object" /\ SetOf(file_at_start.seen_ids) = {}

(* -------------------------------- C1 ----------------------------------- *)
\* C1: in a run whose loaded seen set is non-empty and whose fetch holds IDs not
\* in it, the new-document message has one line for each fetched document whose
\* ID is new, in order, and none for a seen document; every new-document POST
\* carries that message; and when the run completes state.json holds exactly
\* the fetched IDs.
C1_NewDocsExact ==
    (Branched /\ seen # {} /\ FetchedIds \ seen # {}) =>
        LET fresh == SelectSeq(docs, LAMBDA d : d.id \in FetchedIds /\ d.id \notin seen)
        IN  /\ msg.kind = "new"
            /\ Len(msg.lines) = Len(fresh)
            /\ \A i \in DOMAIN fresh : msg.lines[i] = Line(fresh[i])
            /\ Len(fresh) =
                 Cardinality({ i \in DOMAIN payload.Documents :
                                 /\ payload.Documents[i].ID # None
                                 /\ payload.Documents[i].ID \notin seen })
            /\ \A i \in DOMAIN posts : posts[i].text.kind = "new" => posts[i].text = msg
            /\ Completed => Persisted(FetchedIds)

\* a completed run that had seen {1}, fetched IDs {1, 2} and notified one line
C1_Witness ==
    /\ Completed
    /\ seen = {1}
    /\ FetchedIds = {1, 2}
    /\ Len(posts) = 1
    /\ posts[1].text.kind = "new"
    /\ Len(posts[1].text.lines) = 1
    /\ state_file.seen_ids = <<1, 2>>

(* -------------------------------- C2 ----------------------------------- *)
\* C2 as stated: a run that starts without a state file or with empty seen_ids
\* posts nothing but the initialization message, and that only under FORCE_NOTIFY.
C2_OnlyInitMessage ==
    FirstRunStart => \A i \in DOMAIN posts : posts[i].text.kind = "init" /\ FORCE_NOTIFY

\* C2, amended: such a run posts no new-document message (and no heartbeat or
\* daily message); it posts the initialization message only under FORCE_NOTIFY,
\* at most once, and the only other message is the error report of a failed run.
C2_FirstRunSilent ==
    FirstRunStart =>
        /\ PostedKinds \subseteq {"init", "error"}
        /\ "init" \in PostedKinds => FORCE_NOTIFY
        /\ Cardinality({ i \in DOMAIN posts : posts[i].text.kind = "init" }) <= 1
        /\ "error" \in PostedKinds => exc # NoErr

\* a completed first run over two documents that posted the initialization message
C2_Witness ==
    /\ Completed
    /\ file_at_start.kind = "absent"
    /\ Cardinality(FetchedIds) = 2
    /\ FORCE_NOTIFY
    /\ Len(posts) = 1
    /\ posts[1].text = InitMsg(2)

(* -------------------------------- C3 ----------------------------------- *)
\* C3: after a run that completed, on whichever path, state.json holds exactly
\* the non-null IDs that run fetched (IDs gone upstream are dropped).
C3_PersistedIsCurrent ==
    Completed => Persisted(FetchedIds) /\ state_file.seen_ids = SortedList(FetchedIds)

\* a completed run that had seen {1, 2} and fetched only ID 2
C3_Witness ==
    /\ Completed
    /\ seen = {1, 2}
    /\ FetchedIds = {2}
    /\ PersistedIds = {2}

(* -------------------------------- C4 ----------------------------------- *)
\* C4: an initialization or new-document POST that fails does not crash the run
\* (no exception escapes, the run exits 0) and state.json ends up holding the
\* current IDs.
C4_NotifierFailuresSwallowed ==
    \A i \in DOMAIN posts :
        (posts[i].text.kind \in {"init", "new"} /\ ~posts[i].ok) =>
            /\ exc = NoErr
            /\ pc = "exited" => (exit_status = 0 /\ Persisted(FetchedIds))

(* -------------------------------- C5 ----------------------------------- *)
\* C5: when the previous run completed with a non-empty loaded seen set and this
\* run fetches the same IDs, this run posts no new-document message and, once it
\* completes, state.json holds exactly those IDs; and a run whose loaded seen
\* set already is the non-empty ID set it fetches (the first run of such a pair,
\* or the second) posts no new-document message.
C5_Idempotent ==
    /\ (/\ prev.exit_status = 0
        /\ prev.seen_nonempty
        /\ payload # NoPayload
        /\ FetchedIds = prev.current_set) =>
           /\ "new" \notin PostedKinds
           /\ Branched => (seen = FetchedIds /\ outcome # "NEW_DOCS")
           /\ Completed => Persisted(FetchedIds)
    /\ (Branched /\ seen # {} /\ seen = FetchedIds) => "new" \notin PostedKinds

\* the second of two completed runs over IDs {1, 2}: the first had a non-empty
\* seen set, the second finds {1, 2} in state.json and posts nothing
C5_Witness ==
    /\ Completed
    /\ prev.exit_status = 0
    /\ prev.seen_nonempty
    /\ prev.current_set = {1, 2}
    /\ DISCORD_WEBHOOK_URL
    /\ FetchedIds = {1, 2}
    /\ seen = {1, 2}
    /\ posts = <<>>
    /\ PersistedIds = {1, 2}

(* -------------------------------- C6 ----------------------------------- *)
\* C6: a run that fetched and loaded takes the one outcome its seen set and its
\* fetched IDs call for (INITIALIZE iff seen is empty, NEW_DOCS iff seen is
\* non-empty and some fetched ID is not in it, NO_CHANGE otherwise), is at a
\* step of that branch only, and posts no message of another outcome.
C6_OneOutcome ==
    /\ Branched =>
          LET o == OutcomeFor(seen, FetchedIds)
          IN  /\ outcome = o
              /\ o = "INITIALIZE" => PostedKinds \subseteq {"init", "error"}
              /\ o = "NEW_DOCS" => PostedKinds \subseteq {"new", "error"}
              /\ o = "NO_CHANGE" => PostedKinds \subseteq {"heartbeat", "daily", "error"}
              /\ pc \in {"init_save", "init_post"} => o = "INITIALIZE"
              /\ pc \in {"new_post", "new_save"} => o = "NEW_DOCS"
              /\ pc \in {"heartbeat", "daily", "nochange_save"} => o = "NO_CHANGE"
    /\ ~Branched =>
          /\ PostedKinds \subseteq {"error"}
          /\ pc \in {"idle", "attempt", "sleep", "extract", "load", "handler", "exited"}
    /\ (pc \in {"handler", "exited"} /\ exc = NoErr /\ payload # NoPayload) => Branched

\* a completed NO_CHANGE run that posted the heartbeat and then the daily message
C6_Witness ==
    /\ Completed
    /\ outcome = "NO_CHANGE"
    /\ seen = {1, 2}
    /\ FetchedIds = {1}
    /\ Len(posts) = 2
    /\ posts[1].text.kind = "heartbeat"
    /\ posts[2].text.kind = "daily"

(* -------------------------------- C7 ----------------------------------- *)
\* C7: a run ends with status 0 or 1; 0 exactly when no exception escaped
\* main(), 1 when one did (a POST that failed in main() is such an exception).
\* The error report is POSTed only by a failed run, once and last, exactly when
\* a webhook URL is set, and the run exits 1 whether or not that POST succeeds.
C7_ExitStatus ==
    LET errors == { i \in DOMAIN posts : posts[i].text.kind = "error" }
    IN  /\ exit_status \in {Running, 0, 1}
        /\ pc = "exited" <=> exit_status # Running
        /\ pc = "exited" => (exit_status = 0 <=> exc = NoErr)
        /\ pc = "handler" => exc # NoErr
        /\ exc # NoErr => pc \in {"handler", "exited"}
        /\ \A i \in DOMAIN posts :
              (posts[i].text.kind # "error" /\ ~posts[i].ok) => exc = WebhookError
        /\ errors # {} => /\ pc = "exited"
                          /\ exit_status = 1
                          /\ errors = {Len(posts)}
                          /\ posts[Len(posts)].text = ErrorMsg(exc)
        /\ (pc = "exited" /\ exit_status = 1) =>
              Cardinality(errors) = IF DISCORD_WEBHOOK_URL THEN 1 ELSE 0

\* a run that failed on a new-document POST, whose error report failed as well
C7_Witness ==
    /\ pc = "exited"
    /\ exit_status = 1
    /\ exc = WebhookError
    /\ Len(posts) = 2
    /\ posts[1].text.kind = "new"
    /\ posts[2].text.kind = "error"
    /\ ~posts[2].ok

(* -------------------------------- C8 ----------------------------------- *)
C8_FetchState ==
    /\ attempt \in 0..LastAttempt
    /\ Len(sleeps) <= LastAttempt
    /\ pc = "attempt" =>
          /\ attempt \in FirstAttempt..LastAttempt
          /\ payload = NoPayload
          /\ sleeps = [k \in 1..(attempt - 1) |-> 2^(k - 1)]
    /\ pc = "sleep" =>
          /\ payload = NoPayload
          /\ last_err.attempt = attempt
          /\ last_err.type \in FetchErrors
    /\ payload # NoPayload => pc \notin {"attempt", "sleep"} /\ exc.type \notin FetchErrors
    /\ exc.type \in FetchErrors =>
          /\ exc = last_err
          /\ exc.attempt = LastAttempt
          /\ payload = NoPayload
          /\ state = NoState /\ seen = {} /\ outcome = "none"
          /\ state_file = file_at_start
          /\ exit_status # 0

C8_FetchStep ==
    pc \in {"attempt", "sleep"} =>
        /\ state_file' = state_file
        /\ pc' \in {"attempt", "sleep", "extract", "handler"}
        /\ pc' = "attempt" => (pc = "sleep" /\ attempt' = attempt + 1)
        /\ pc' = "sleep" => (pc = "attempt" /\ attempt' = attempt)
        /\ pc' = "extract" => (pc = "attempt" /\ payload' \in Payloads)
        /\ pc' = "handler" => (pc = "sleep" /\ attempt = LastAttempt)

\* C8: http_post_json makes attempts 1..5 at most and every step of it moves on
\* (attempt, sleep, next attempt), so it ends; a success returns that attempt's
\* payload and no attempt follows it; before attempt k+1 the waits were
\* 1, 2, ..., 2^(k-1); after five failures the error of attempt 5 escapes and
\* the run fails with state.json neither read nor written.
C8_Retries == []C8_FetchState /\ [][C8_FetchStep]_vars

\* a run whose five attempts failed, ended with the fifth error
C8_Witness ==
    /\ pc = "exited"
    /\ exit_status = 1
    /\ exc.type \in FetchErrors
    /\ exc.attempt = 5
    /\ Len(sleeps) >= 4
    /\ SubSeq(sleeps, 1, 4) = <<1, 2, 4, 8>>

(* -------------------------------- C9 ----------------------------------- *)
\* the heartbeat is posted only by a NO_CHANGE run under FORCE_NOTIFY, the daily
\* message only by a NO_CHANGE run under DAILY_CHECK at local hour 19
C9_HeartbeatDailyGuards ==
    /\ "heartbeat" \in PostedKinds =>
          /\ Branched /\ OutcomeFor(seen, FetchedIds) = "NO_CHANGE"
          /\ FORCE_NOTIFY
    /\ "daily" \in PostedKinds =>
          /\ Branched /\ OutcomeFor(seen, FetchedIds) = "NO_CHANGE"
          /\ DAILY_CHECK
          /\ dt_local.hour = 19

\* a NO_CHANGE run with neither FORCE_NOTIFY nor DAILY_CHECK
C9_QuietNoChange ==
    Branched /\ OutcomeFor(seen, FetchedIds) = "NO_CHANGE" /\ ~FORCE_NOTIFY /\ ~DAILY_CHECK

\* C9 as stated: the guards above, and a NO_CHANGE run with both flags unset
\* posts nothing.
C9_AsStated ==
    /\ C9_HeartbeatDailyGuards
    /\ C9_QuietNoChange => posts = <<>>

\* C9, amended: the guards above, and a NO_CHANGE run with both flags unset
\* posts no heartbeat and no daily message: its only possible POST is the error
\* report of the handler when writing state.json fails.
C9_Amended ==
    /\ C9_HeartbeatDailyGuards
    /\ C9_QuietNoChange =>
          /\ PostedKinds \subseteq {"error"}
          /\ posts # <<>> => (exc = SaveError /\ exit_status = 1)

\* a completed NO_CHANGE run that posted the daily message alone, at 19:30 CDT
C9_Witness ==
    /\ Completed
    /\ outcome = "NO_CHANGE"
    /\ ~FORCE_NOTIFY
    /\ DAILY_CHECK
    /\ dt_utc = DateTime(2025, 7, 2, 0, 30)
    /\ Len(posts) = 1
    /\ posts[1].text.kind = "daily"

(* -------------------------------- C10 ---------------------------------- *)
\* C10: without a webhook URL no POST is ever issued and no POST error arises;
\* a run then fails only on a fetch error or a state file error, and a run that
\* completes leaves state.json holding the current IDs.
C10_NoWebhookNoop ==
    ~DISCORD_WEBHOOK_URL =>
        /\ posts = <<>>
        /\ exc.type \in {"none"} \cup FetchErrors \cup {"StateFileError", "OSError"}
        /\ Completed => Persisted(FetchedIds)
        /\ (pc = "exited" /\ exc = NoErr) => exit_status = 0

\* a completed NO_CHANGE run without webhook URL, both flags set, at local hour 19
C10_Witness ==
    /\ Completed
    /\ ~DISCORD_WEBHOOK_URL
    /\ FORCE_NOTIFY
    /\ DAILY_CHECK
    /\ dt_local.hour = 19
    /\ outcome = "NO_CHANGE"
    /\ FetchedIds = {1, 2}
    /\ PersistedIds = {1, 2}

(* -------------------------------- C11 ---------------------------------- *)
\* the calendar: the second Sunday of March and the first Sunday of November
C11_MarchSunday(y) == CASE y = 2024 -> 10 [] y = 2025 -> 9 [] y = 2026 -> 8
C11_NovemberSunday(y) == CASE y = 2024 -> 3 [] y = 2025 -> 2 [] y = 2026 -> 1

\* the position of t within its year, to the minute
C11_InYear(t) == ((t.month * 100 + t.day) * 100 + t.hour) * 100 + t.minute

\* t lies in [second Sunday of March 08:00, first Sunday of November 07:00)
C11_InWindow(t) ==
    /\ C11_InYear(DateTime(t.year, 3, C11_MarchSunday(t.year), 8, 0)) <= C11_InYear(t)
    /\ C11_InYear(t) < C11_InYear(DateTime(t.year, 11, C11_NovemberSunday(t.year), 7, 0))

C11_DaysIn(y, m) ==
    IF m = 2 THEN (IF y % 4 = 0 /\ (y % 100 # 0 \/ y % 400 = 0) THEN 29 ELSE 28)
    ELSE IF m \in {4, 6, 9, 11} THEN 30 ELSE 31

\* t minus h hours, 0 < h < 24, by the calendar
C11_Minus(t, h) ==
    IF t.hour >= h THEN DateTime(t.year, t.month, t.day, t.hour - h, t.minute)
    ELSE IF t.day > 1 THEN DateTime(t.year, t.month, t.day - 1, t.hour + 24 - h, t.minute)
    ELSE IF t.month > 1
         THEN DateTime(t.year, t.month - 1, C11_DaysIn(t.year, t.month - 1),
                       t.hour + 24 - h, t.minute)
    ELSE DateTime(t.year - 1, 12, 31, t.hour + 24 - h, t.minute)

\* C11: the local time main() computes is dt_utc minus 5 hours when dt_utc lies
\* in [second Sunday of March 08:00 UTC, first Sunday of November 07:00 UTC) of
\* its year and dt_utc minus 6 hours otherwise; 2025-07-01T19:00Z gives local
\* hour 14, 2025-01-01T19:00Z local hour 13, and the local hour always is the
\* UTC hour minus 5 or minus 6, modulo 24.
C11_ChicagoTime ==
    pc # "idle" =>
        /\ dt_local = C11_Minus(dt_utc, IF C11_InWindow(dt_utc) THEN 5 ELSE 6)
        /\ is_us_dst_chicago(dt_utc) <=> C11_InWindow(dt_utc)
        /\ dt_local.hour \in {(dt_utc.hour + 19) % 24, (dt_utc.hour + 18) % 24}
        /\ dt_utc = DateTime(2025, 7, 1, 19, 0) => dt_local.hour = 14
        /\ dt_utc = DateTime(2025, 1, 1, 19, 0) => dt_local.hour = 13

\* main() started at 2025-03-09T08:00Z, the first minute of DST: 03:00 local
C11_Witness ==
    /\ pc = "attempt"
    /\ dt_utc = DateTime(2025, 3, 9, 8, 0)
    /\ dt_local = DateTime(2025, 3, 9, 3, 0)

(* -------------------------------- C12 ---------------------------------- *)
\* C12: a record without ID is in no ID set (current, seen, persisted), never
\* makes a run take NEW_DOCS (a NEW_DOCS run has fetched an item whose ID is
\* non-null and unseen) and has no line in any message: the new-document message
\* has as many lines as there are fetched items with a non-null unseen ID, and
\* none of them carries the name or the URL of the record without ID.
C12_NullIdsExcluded ==
    /\ None \notin current_set
    /\ None \notin seen
    /\ None \notin PersistedIds
    /\ (Branched /\ outcome = "NEW_DOCS") =>
          /\ \E i \in DOMAIN payload.Documents :
                payload.Documents[i].ID # None /\ payload.Documents[i].ID \notin seen
          /\ Len(msg.lines) =
                Cardinality({ i \in DOMAIN payload.Documents :
                                /\ payload.Documents[i].ID # None
                                /\ payload.Documents[i].ID \notin seen })
    /\ \A i \in DOMAIN msg.lines :
          /\ msg.lines[i].name # NoIdItem.DisplayName
          /\ msg.lines[i].url # NoIdItem.FileUrl
          /\ msg.lines[i].shows = "id" => msg.lines[i].id \in IDs
    /\ \A k \in DOMAIN posts : \A i \in DOMAIN posts[k].text.lines :
          /\ posts[k].text.lines[i].name # NoIdItem.DisplayName
          /\ posts[k].text.lines[i].url # NoIdItem.FileUrl

\* a completed run that had seen {1} and fetched a record without ID and a
\* record with ID 2: one line, and {2} persisted
C12_Witness ==
    /\ Completed
    /\ seen = {1}
    /\ payload.shape = "list"
    /\ Len(payload.Documents) = 2
    /\ payload.Documents[1] = NoIdItem
    /\ payload.Documents[2].ID = 2
    /\ Len(posts) = 1
    /\ Len(posts[1].text.lines) = 1
    /\ PersistedIds = {2}

(* -------------------------------- C13 ---------------------------------- *)
\* the fetched payload has no "Documents" key, or null or an empty array under it
C13_NoDocuments ==
    /\ payload # NoPayload
    /\ payload.shape \in {"nokey", "null"} \/ payload.Documents = <<>>

\* the errors a run can end in that do not come from extract_docs
C13_OtherErrors == {"none", "StateFileError", "OSError", "WebhookError"}

C13_State ==
    C13_NoDocuments =>
        /\ extract_docs(payload) = <<>>
        /\ exc.type \in C13_OtherErrors
        /\ pc # "extract" => (docs = <<>> /\ current_set = {})
        /\ Branched => outcome = (IF seen = {} THEN "INITIALIZE" ELSE "NO_CHANGE")
        /\ "new" \notin PostedKinds
        /\ msg.kind # "new"

C13_Step ==
    (pc = "extract" /\ C13_NoDocuments) =>
        (pc' = "load" /\ docs' = <<>> /\ exc' = NoErr /\ exit_status' = Running)

\* C13: for a payload without "Documents", or with null or an empty array under
\* it, extract_docs returns the empty sequence and the extraction step raises
\* nothing and goes on to load_state; the run's current ID set is empty, the
\* branch it takes is INITIALIZE (seen empty) or NO_CHANGE (seen non-empty),
\* never NEW_DOCS, and it composes and posts no new-document message.
C13_EmptyExtraction == []C13_State /\ [][C13_Step]_vars

\* completed runs without "Documents": one that initialized, one without change
C13_Witness ==
    /\ Completed
    /\ payload.shape = "nokey"
    /\ seen = {1, 2}
    /\ outcome = "NO_CHANGE"
    /\ Persisted({})

(* -------------------------------- C14 ---------------------------------- *)
\* the fetched records that are newly observed: ID present and not seen
C14_NewRecords ==
    { i \in DOMAIN payload.Documents :
        payload.Documents[i].ID # None /\ payload.Documents[i].ID \notin seen }

\* the URL extraction keeps of a record: FileUrl, else Url, else none
C14_UrlOf(d) == IF d.FileUrl # "" THEN d.FileUrl ELSE d.Url

\* line l is the line of record d
C14_LineFor(l, d) ==
    /\ l.name = (IF d.DisplayName # "" THEN d.DisplayName
                 ELSE IF d.Name # "" THEN d.Name ELSE "(unnamed)")
    /\ IF C14_UrlOf(d) # ""
       THEN l.shows = "url" /\ l.url = C14_UrlOf(d)
       ELSE l.shows = "id" /\ l.id = d.ID

\* the lines are the newly observed records, one line each
C14_OneLineEach(lines) ==
    \E f \in [DOMAIN lines -> C14_NewRecords] :
        /\ \A i, j \in DOMAIN lines : f[i] = f[j] => i = j
        /\ \A r \in C14_NewRecords : \E i \in DOMAIN lines : f[i] = r
        /\ \A i \in DOMAIN lines : C14_LineFor(lines[i], payload.Documents[f[i]])

\* C14: the new-document message of a NEW_DOCS run, and every new-document
\* message POSTed, has exactly one line per newly observed document; the line
\* shows the document's URL when its extracted url is non-empty and its numeric
\* ID otherwise.
C14_NewDocLines ==
    /\ (Branched /\ outcome = "NEW_DOCS") => (msg.kind = "new" /\ C14_OneLineEach(msg.lines))
    /\ \A k \in DOMAIN posts :
          posts[k].text.kind = "new" => C14_OneLineEach(posts[k].text.lines)

\* a POSTed new-document message of two lines, one with a URL and one with an ID
C14_Witness ==
    /\ Completed
    /\ Len(posts) = 1
    /\ posts[1].text.kind = "new"
    /\ Len(posts[1].text.lines) = 2
    /\ \E i, j \in 1..2 :
          /\ posts[1].text.lines[i].shows = "url"
          /\ posts[1].text.lines[i].url = "/f.pdf"
          /\ posts[1].text.lines[j].shows = "id"
          /\ posts[1].text.lines[j].id = 2

(* -------------------------------- C15 ---------------------------------- *)
\* C15: the sleeps of http_post_json occur only between attempts: every sleep
\* is followed by another attempt, and when the error of the fifth attempt
\* propagates there were four sleeps, none after the fifth attempt.
\* The code sleeps 2^(5-1) = 16 s after the fifth failure, then raises.
C15_SleepsOnlyBetweenAttempts ==
    /\ [](exc.type \in FetchErrors => Len(sleeps) = LastAttempt - 1)
    /\ [][pc = "sleep" => pc' = "attempt"]_vars

(* -------------------------------- C16 ---------------------------------- *)
\* the previous run completed with a non-empty seen set and fetched no IDs (so
\* it took NO_CHANGE)
C16_PreviousRunEmptied ==
    /\ prev.exit_status = 0
    /\ prev.seen_nonempty
    /\ prev.current_set = {}

\* C16: a completed NO_CHANGE run with non-empty seen that fetched no documents
\* has persisted an empty seen_ids; the run after it finds that empty list and,
\* fetching a non-empty set of IDs, takes INITIALIZE, composes and posts no
\* new-document message and, once completed, has recorded all fetched IDs.
C16_EmptiedIsFirstRun ==
    /\ (Completed /\ outcome = "NO_CHANGE" /\ seen # {} /\ FetchedIds = {}) => Persisted({})
    /\ C16_PreviousRunEmptied =>
          /\ file_at_start = ObjectFile([has_seen_ids |-> TRUE, seen_ids |-> <<>>])
          /\ Branched => seen = {}
          /\ (Branched /\ FetchedIds # {}) =>
                /\ outcome = "INITIALIZE"
                /\ msg.kind # "new"
                /\ "new" \notin PostedKinds
          /\ (Completed /\ FetchedIds # {}) => Persisted(FetchedIds)

\* after such a run, a completed run that fetched IDs 1 and 2 and, with
\* FORCE_NOTIFY and a webhook, posted the initialization message only
C16_Witness ==
    /\ C16_PreviousRunEmptied
    /\ Completed
    /\ FetchedIds = {1, 2}
    /\ outcome = "INITIALIZE"
    /\ DISCORD_WEBHOOK_URL
    /\ PostedKinds = {"init"}
    /\ PersistedIds = {1, 2}

(* -------------------------------- C17 ---------------------------------- *)
\* the previous run failed in its new-document POST
C17_PreviousPostFailed == prev.exit_status = 1 /\ prev.seen_nonempty

\* the fetched records whose ID is in S
C17_RecordsWithIdIn(S) == { i \in DOMAIN payload.Documents : payload.Documents[i].ID \in S }

C17_State ==
    \* a NEW_DOCS run touches state.json only after its POST, and only if no
    \* new-document POST failed
    /\ (outcome = "NEW_DOCS" /\ state_file # file_at_start) =>
          /\ pc \in {"handler", "exited"}
          /\ \A k \in DOMAIN posts : posts[k].text.kind = "new" => posts[k].ok
          /\ DISCORD_WEBHOOK_URL => (posts # <<>> /\ posts[1].text = msg /\ posts[1].ok)
    \* a failed new-document POST: the run fails, seen_ids is as loaded
    /\ (\E k \in DOMAIN posts : posts[k].text.kind = "new" /\ ~posts[k].ok) =>
          /\ NewPostFailed
          /\ state_file = file_at_start
          /\ PersistedIds = seen
          /\ new_ids \cap PersistedIds = {}
          /\ pc = "exited" => exit_status = 1
    \* the run after it finds none of the unreported IDs in state.json and,
    \* fetching the same IDs, takes NEW_DOCS with the same new IDs
    /\ C17_PreviousPostFailed =>
          /\ prev.new_ids # {}
          /\ prev.new_ids \cap SetOf(file_at_start.seen_ids) = {}
          /\ SetOf(file_at_start.seen_ids) # {}
          /\ (Branched /\ FetchedIds = prev.current_set) =>
                /\ outcome = "NEW_DOCS"
                /\ new_ids = prev.new_ids
                /\ msg.kind = "new"
                /\ Len(msg.lines) = Cardinality(C17_RecordsWithIdIn(prev.new_ids))
                /\ (DISCORD_WEBHOOK_URL /\ pc \in {"new_save", "exited"}) =>
                      (posts # <<>> /\ posts[1].text = msg)

\* the run after a failed new-document POST starts from the state.json that
\* the failed run started from
C17_Step ==
    (pc = "exited" /\ NewPostFailed) => (pc' = "idle" /\ file_at_start' = file_at_start)

\* C17: a NEW_DOCS run updates state.json only after discord_post has returned;
\* if the new-document POST fails the run fails and seen_ids stays as loaded
\* (no new ID is recorded as seen), so the next run starts from the same
\* state.json and, fetching the same IDs, takes NEW_DOCS and reports the same
\* new IDs.
C17_FailedPostKeepsState == []C17_State /\ [][C17_Step]_vars

\* after a run whose POST for the new ID 2 failed, a run that fetched the same
\* IDs, posted the message and recorded them
C17_Witness ==
    /\ C17_PreviousPostFailed
    /\ prev.current_set = {1, 2}
    /\ prev.new_ids = {2}
    /\ Completed
    /\ FetchedIds = {1, 2}
    /\ Len(posts) = 1
    /\ posts[1].text.kind = "new"
    /\ posts[1].ok
    /\ PersistedIds = {1, 2}

(* -------------------------------- C18 ---------------------------------- *)
\* the failures the claim names: fetch, state load, webhook POST
C18_NamedFailures == FetchErrors \cup {"StateFileError", "WebhookError"}

\* C18: after a run that exits with a nonzero status because a fetch, a state
\* load or a webhook POST failed, state.json holds the seen_ids it held when
\* the run started.
\* The initialization branch saves before it posts, and the failure of that
\* POST is not swallowed: the run exits 1 with the fetched IDs recorded.
C18_FailedRunKeepsFile ==
    (pc = "exited" /\ exit_status # 0 /\ exc.type \in C18_NamedFailures) =>
        PersistedIds = SetOf(file_at_start.seen_ids)

====
